---------------------------- MODULE Spec2Model ----------------------------
(***************************************************************************)
(* A model of the DC2-analysis notebooks: the top-to-bottom execution of   *)
(* the code cells of each notebook against the read-only stores they use   *)
(* (PostgreSQL database, GCR catalog files, the cosmoDC2 parquet file),    *)
(* the SQL queries q3, q4, q6, q7, the Timer class, the Spark              *)
(* select/filter chain and the two redshift histograms.                    *)
(***************************************************************************)
EXTENDS Integers, Sequences, FiniteSets, TLC

VARIABLES
    \* ---- notebook kernels and the persistent stores
    pc,         \* per notebook: index of the next statement of a top-to-bottom run
    status,     \* per notebook: "idle" | "running" | "done" | "error"
    env,        \* per notebook: where each defined name lives (handle/remote/local)
    store,      \* content of each persistent store
    rowsLoaded, \* has the Spark engine read row data of the parquet file
    \* ---- SQL queries of postgres_object_1_intro
    native,     \* per schema: the rows of the native tables, joined on object_id
    schema,     \* the notebook variable `schema`
    df,         \* DataFrame of (tract, count) rows built from q3 / q4
    records,    \* cursor.fetchall() of q6 / q7
    nObj,       \* len(records)
    qrun,       \* which query filled df / records
    \* ---- Timer
    now,        \* time()
    t0,         \* Timer.t0
    lastCall,   \* time of the last call made on the Timer
    printed,    \* what split() printed last (<<>> before the first split)
    sinceCall,  \* at the last split(): the time elapsed since the call before it
    \* ---- Spark select / filter / drop
    df_all,     \* the DataFrame read from the parquet file
    dfSF,       \* df_all.select(cols).filter(cond)   [.drop("halo_id")]
    dfFS,       \* df_all.filter(cond).select(cols)   [.drop("halo_id")]
    \* ---- redshift histograms
    redshift,   \* the redshift column of df
    h,          \* the Spark histogram: <<set of [loc, count] rows>>
    hist,       \* plt.hist: <<count per bin>>
    \* ---- GCR catalog with photo-z
    catalog,    \* the chunks (tract, patch) of the catalog and their rows
    data,       \* the dict get_quantities returned last
    check,      \* (data['photoz_mode'] < 0.2).all()
    sumpdf,     \* np.sum(data['photoz_pdf'], axis=0)
    sumpdf_bin, \* the same over the rows of bin_cut
    gcrun,      \* which cell filled data
    \* ---- information_schema and the cone search of postgres_object_2
    columns,    \* information_schema.columns: (table_schema, table_name, column_name)
    find_table_query, \* the formatted query
    tables      \* the table names the query returned

nbVars == <<pc, status, env, store, rowsLoaded>>
sqlVars == <<native, schema, df, records, nObj, qrun>>
timerVars == <<now, t0, lastCall, printed, sinceCall>>
sparkVars == <<df_all, dfSF, dfFS>>
histVars == <<redshift, h, hist>>
gcrVars == <<catalog, data, check, sumpdf, sumpdf_bin, gcrun>>
pg2Vars == <<columns, find_table_query, tables>>
vars == <<nbVars, sqlVars, timerVars, sparkVars, histVars, gcrVars, pg2Vars>>

None == "none"

(***************************************************************************)
(* The statements of the notebooks.  One record per statement that touches *)
(* data: its source line, its role in the flow (op), the names it uses and *)
(* defines, where the defined name lives, the store it reads, the SQL verb *)
(* of a database statement, the attribute it looks up on a pandas Series,  *)
(* and whether the engine has to read row data to execute it.              *)
(***************************************************************************)
Stmt(line, op, use, def, defloc, tgt, verb, attr, loads) ==
    [line |-> line, op |-> op, use |-> use, def |-> def, defloc |-> defloc,
     tgt |-> tgt, verb |-> verb, attr |-> attr, loads |-> loads]

Connect(line, name, tgt) == Stmt(line, "connect", {}, {name}, "handle", tgt, "", "", FALSE)
Info(line, use, tgt) == Stmt(line, "info", use, {}, "local", tgt, "", "", FALSE)
Execute(line, verb) == Stmt(line, "query", {"dbconn"}, {"cursor"}, "remote", "postgres", verb, "", FALSE)
Fetch(line, name) == Stmt(line, "fetch", {"cursor"}, {name}, "local", None, "", "", FALSE)
Read(line, use, name, tgt) == Stmt(line, "read", use, {name}, "local", tgt, "", "", FALSE)
Statistic(line, use, name) == Stmt(line, "stat", use, {name}, "local", None, "", "", FALSE)
Plot(line, use) == Stmt(line, "plot", use, {}, "local", None, "", "", FALSE)
PlotAttr(line, use, attr) == Stmt(line, "plot", use, {}, "local", None, "", attr, FALSE)
TimerCall(line, use, def) == Stmt(line, "timer", use, def, "local", None, "", "", FALSE)
\* Spark: a transformation is lazy, an action makes the engine load rows.
Transform(line, use, name, tgt) == Stmt(line, "query", use, {name}, "remote", tgt, "", "", FALSE)
EngineAgg(line, use, name, defloc, loads) == Stmt(line, "agg", use, {name}, defloc, "parquet", "", "", loads)
Collect(line, use, name) == Stmt(line, "fetch", use, {name}, "local", "parquet", "", "", TRUE)

Pg1Steps ==
    << Connect(78, "dbconn", "postgres"),
       Execute(109, "SELECT"), Fetch(110, "record"),
       Execute(134, "SELECT"), Fetch(135, "records"),
       Execute(158, "SELECT"), Fetch(159, "records"),
       Execute(183, "SELECT"), Fetch(184, "df"),
       Execute(204, "SELECT"), Fetch(205, "df"),
       Execute(225, "SELECT"), Fetch(226, "records"),
       Execute(257, "SELECT"), Fetch(258, "records"),
       Statistic(259, {"records"}, "nObj"), Statistic(261, {"records"}, "df"),
       \* plot_color_color(df, ...) called at line 329
       Statistic(302, {"df"}, "H"), Plot(313, {"H"}),
       Read(280, {}, "locus", "assets"), Plot(289, {"locus"}),
       Execute(359, "SELECT"), Fetch(360, "records"),
       Statistic(361, {"records"}, "nObj"), Statistic(363, {"records"}, "df"),
       \* plot_color_color(df, ...) called at line 372
       Statistic(302, {"df"}, "H"), Plot(313, {"H"}),
       Read(280, {}, "locus", "assets"), Plot(289, {"locus"}) >>

Pg2Steps ==
    << Connect(65, "dbconn", "postgres"),
       Execute(89, "SELECT"), Fetch(92, "record"),
       Execute(132, "select"), Fetch(133, "record"),
       Execute(167, "select"), Fetch(168, "record"),
       Execute(237, "SELECT"), Fetch(238, "records"),
       Statistic(239, {"records"}, "nObj"), Statistic(249, {"records"}, "cmags"),
       Plot(255, {"cmags"}),
       Execute(288, "SELECT"), Fetch(289, "records"),
       Statistic(290, {"records"}, "nObj"), Statistic(300, {"records"}, "bmags"),
       Plot(306, {"bmags"}) >>

PhotozSteps ==
    << Connect(399, "cat", "gcr"),
       Info(427, {"cat"}, "gcr"),
       Read(444, {"cat"}, "data", "gcr"), Statistic(449, {"data"}, "check"),
       Read(467, {"cat"}, "data", "gcr"), Statistic(483, {"data"}, "shape"),
       Plot(510, {"data", "cat"}),
       Read(567, {"cat"}, "data", "gcr"), Statistic(576, {"data"}, "sumpdf"),
       Plot(585, {"data", "cat", "sumpdf"}), Plot(597, {"data"}),
       Statistic(630, {"data"}, "bin_cut"), Statistic(631, {"data", "bin_cut"}, "sumpdf_bin"),
       Plot(640, {"data", "cat", "bin_cut", "sumpdf_bin"}), Plot(652, {"data", "bin_cut"}) >>

\* Mutant: the histogram is plotted from the Spark DataFrame h, the
\* toPandas() of line 264 forgotten.
MovieStepsNoToPandas ==
    << Connect(95, "spark", "parquet"),
       Transform(135, {"spark"}, "df_all", "parquet"),
       Transform(179, {"df_all"}, "df", None),
       Collect(243, {"df"}, "m"), Statistic(248, {"m"}, "dz"),
       Transform(252, {"df", "m", "dz"}, "zbin", None),
       EngineAgg(257, {"zbin"}, "h", "remote", FALSE),
       Plot(268, {"h", "dz"}) >>

\* Mutant: the data are inspected with df_all.show() (an action) where the
\* notebook inspects the schema with df_all.printSchema().
MovieStepsShow ==
    << Connect(95, "spark", "parquet"),
       Transform(135, {"spark"}, "df_all", "parquet"), Collect(138, {"df_all"}, "shown"),
       Transform(179, {"df_all"}, "df", None), Transform(182, {"df"}, "df", None),
       EngineAgg(187, {"df"}, "N", "local", TRUE) >>

MovieSteps ==
    << Connect(95, "spark", "parquet"), TimerCall(112, {}, {"timer"}),
       TimerCall(129, {"timer"}, {}),
       Transform(135, {"spark"}, "df_all", "parquet"), Info(138, {"df_all"}, "parquet"),
       TimerCall(140, {"timer"}, {}),
       TimerCall(173, {"timer"}, {}),
       Transform(179, {"df_all"}, "df", None), Transform(182, {"df"}, "df", None),
       EngineAgg(187, {"df"}, "N", "local", TRUE),
       TimerCall(190, {"timer"}, {}),
       TimerCall(210, {"timer"}, {}),
       EngineAgg(213, {"df"}, "stat", "remote", TRUE), Collect(214, {"stat"}, "shown"),
       TimerCall(216, {"timer"}, {}),
       TimerCall(240, {"timer"}, {}),
       Collect(243, {"df"}, "m"), Statistic(248, {"m"}, "dz"),
       Transform(252, {"df", "m", "dz"}, "zbin", None),
       EngineAgg(257, {"zbin"}, "h", "remote", FALSE),
       Transform(260, {"h", "m", "dz"}, "h", None),
       Collect(264, {"h"}, "hp"),
       PlotAttr(268, {"hp", "dz"}, "bvalues"),
       TimerCall(271, {"timer"}, {}),
       TimerCall(291, {"timer"}, {}),
       Collect(292, {"df"}, "z_values"), Plot(293, {"z_values"}),
       TimerCall(295, {"timer"}, {}),
       Collect(328, {"stat"}, "means"),
       Transform(333, {"df", "means"}, "dfcut", None),
       Collect(339, {"dfcut"}, "p"),
       Plot(344, {"p"}), Statistic(346, {"p"}, "zmean") >>

ClusterSteps ==
    << Info(54, {}, "gcr"),
       Connect(64, "catalog", "gcr"), Info(67, {"catalog"}, "gcr"),
       Info(77, {"catalog"}, "gcr"), Info(87, {"catalog"}, "gcr"),
       Read(104, {"catalog"}, "cluster_data", "gcr"),
       Statistic(120, {"cluster_data"}, "is_central"),
       Plot(138, {"cluster_data", "is_central"}), Plot(159, {"cluster_data", "is_central"}),
       Statistic(173, {"cluster_data", "is_central"}, "dndz_hist"), Plot(178, {"dndz_hist"}),
       Statistic(191, {"cluster_data", "is_central"}, "dndM_hist"), Plot(196, {"dndM_hist"}),
       Statistic(227, {"cluster_data", "is_central"}, "ngal"),
       Plot(240, {"cluster_data", "is_central", "ngal"}),
       Statistic(278, {"cluster_data", "is_central"}, "dist_to_central_Mpc_list"),
       Statistic(280, {"dist_to_central_Mpc_list"}, "ngal_rmax"),
       Plot(291, {"cluster_data", "is_central", "ngal_rmax"}),
       Statistic(335, {"cluster_data", "is_central"}, "Nclus_per_bin"),
       Statistic(352, {"dist_to_central_Mpc_list", "Nclus_per_bin"}, "hist_dist_bin"),
       Plot(372, {"hist_dist_bin", "Nclus_per_bin"}),
       Plot(425, {"cluster_data", "is_central"}),
       Statistic(454, {"cluster_data", "is_central"}, "Nclus_per_bin_LF"),
       Statistic(467, {"cluster_data", "is_central"}, "hist_mag_app_bin"),
       Plot(485, {"hist_mag_app_bin", "Nclus_per_bin_LF"}),
       Statistic(514, {"cluster_data", "is_central"}, "hist_mag_abs_bin"),
       Plot(532, {"hist_mag_abs_bin", "Nclus_per_bin_LF"}),
       Statistic(561, {"cluster_data", "is_central"}, "normaltest"),
       Plot(597, {"cluster_data", "is_central"}), Plot(618, {"cluster_data", "is_central"}) >>

\* Mutant: the commands of the markdown cell (lines 13-25), which end with
\* data.write('cosmoDC2_v1.1.4_raw.fits', format='fits'), run as a code cell.
RedmapperStepsWriting ==
    << Connect(17, "gc", "gcr"), Read(23, {"gc"}, "data", "gcr"),
       Stmt(24, "write", {"data"}, {}, "local", "gcr", "", "", FALSE) >>

RedmapperSteps ==
    << Connect(57, "gc", "gcr"), Info(67, {"gc"}, "gcr"),
       Read(100, {"gc"}, "cluster_data", "gcr"), Read(101, {"gc"}, "member_data", "gcr"),
       Plot(111, {"cluster_data"}),
       Connect(141, "gc_truth", "gcr"), Read(144, {"gc_truth"}, "truth_data", "gcr"),
       Statistic(153, {"cluster_data", "member_data"}, "a"),
       Plot(163, {"truth_data", "cluster_data", "member_data", "a"}),
       Plot(186, {"truth_data", "cluster_data", "member_data", "a"}),
       Plot(208, {"truth_data", "cluster_data", "member_data", "a"}),
       Plot(230, {"truth_data", "cluster_data", "member_data", "a"}),
       Statistic(262, {"member_data"}, "mem"),
       Statistic(273, {"cluster_data", "mem"}, "a"),
       Statistic(279, {"cluster_data", "mem", "a"}, "mem_zmedian"),
       Plot(288, {"cluster_data", "mem_zmedian"}), Plot(314, {"cluster_data"}) >>

Notebooks == {"pg1", "pg2", "photoz", "movie", "clusters", "redmapper"}

Steps(nb) ==
    CASE nb = "pg1" -> Pg1Steps
      [] nb = "pg2" -> Pg2Steps
      [] nb = "photoz" -> PhotozSteps
      [] nb = "movie" -> MovieSteps
      [] nb = "clusters" -> ClusterSteps
      [] nb = "redmapper" -> RedmapperSteps

(***************************************************************************)
(* The kernel of a notebook.  A name is a handle (connection, session,     *)
(* catalog), a remote result (a cursor after execute, a Spark DataFrame)   *)
(* or a local value (a list of tuples, a dict of arrays, a pandas table).  *)
(***************************************************************************)
EmptyEnv == [handle |-> {}, remote |-> {}, local |-> {}]

Defined(e) == e.handle \cup e.remote \cup e.local

Bind(e, names, loc) ==
    [handle |-> IF loc = "handle" THEN e.handle \cup names ELSE e.handle \ names,
     remote |-> IF loc = "remote" THEN e.remote \cup names ELSE e.remote \ names,
     local  |-> IF loc = "local"  THEN e.local  \cup names ELSE e.local  \ names]

\* The attributes of a pandas Series the notebooks look up.
SeriesAttrs == {"values", "mean"}

\* The exception a statement raises in environment e ("" when it completes).
Raises(s, e) ==
    IF ~(s.use \subseteq Defined(e)) THEN "NameError"
    ELSE IF s.attr # "" /\ s.attr \notin SeriesAttrs THEN "AttributeError"
    ELSE ""

(***************************************************************************)
(* The persistent stores.  A database statement changes the database       *)
(* unless it is a SELECT (SQL ignores the case of keywords); a catalog or  *)
(* dataframe call changes its store only when it is a write.               *)
(***************************************************************************)
Stores == {"postgres", "gcr", "parquet", "assets"}

IsSelect(verb) == verb \in {"SELECT", "select", "Select"}

Writes(s) ==
    \/ s.op = "write"
    \/ s.op = "query" /\ s.verb # "" /\ ~IsSelect(s.verb)

Changed(c) == IF c = "v0" THEN "v1" ELSE "v0"

Effect(s, st) ==
    IF Writes(s) /\ s.tgt \in Stores THEN [st EXCEPT ![s.tgt] = Changed(st[s.tgt])] ELSE st

\* The content of the stores before any cell ran.
StoreInit == [s \in Stores |-> "v0"]

\* The number of notebooks open in one session.
MaxKernels == 2

Open == {nb \in Notebooks : status[nb] # "idle"}

NbInit ==
    /\ pc = [nb \in Notebooks |-> 1]
    /\ status = [nb \in Notebooks |-> "idle"]
    /\ env = [nb \in Notebooks |-> EmptyEnv]
    /\ store = StoreInit
    /\ rowsLoaded = FALSE

\* The next statement of notebook nb executes (cells run top to bottom; a
\* statement that raises ends the run of the notebook).
RunStmt(nb) ==
    /\ status[nb] \in {"idle", "running"}
    /\ status[nb] = "idle" => Cardinality(Open) < MaxKernels
    /\ LET s == Steps(nb)[pc[nb]]
           e == env[nb]
           err == Raises(s, e)
       IN  IF err # ""
              THEN /\ status' = [status EXCEPT ![nb] = "error"]
                   /\ UNCHANGED <<pc, env, store, rowsLoaded>>
              ELSE /\ pc' = [pc EXCEPT ![nb] = @ + 1]
                   /\ status' = [status EXCEPT ![nb] =
                                   IF pc[nb] = Len(Steps(nb)) THEN "done" ELSE "running"]
                   /\ env' = [env EXCEPT ![nb] = Bind(e, s.def, s.defloc)]
                   /\ store' = Effect(s, store)
                   /\ rowsLoaded' = (rowsLoaded \/ s.loads)
    /\ UNCHANGED <<sqlVars, timerVars, sparkVars, histVars, gcrVars, pg2Vars>>

\* The kernel of notebook nb is restarted: all its names become undefined
\* (and the Spark session of the movie notebook, with its cache, is gone).
RestartKernel(nb) ==
    /\ status[nb] # "idle"
    /\ pc' = [pc EXCEPT ![nb] = 1]
    /\ status' = [status EXCEPT ![nb] = "idle"]
    /\ env' = [env EXCEPT ![nb] = EmptyEnv]
    /\ rowsLoaded' = IF nb = "movie" THEN FALSE ELSE rowsLoaded
    /\ UNCHANGED <<store, sqlVars, timerVars, sparkVars, histVars, gcrVars, pg2Vars>>

(***************************************************************************)
(* The PostgreSQL database.  A schema holds native tables with one row per *)
(* object (position, with object_id and detect_isprimary, and the tables   *)
(* with the measurements) and the view dpdd over them.  A column value is  *)
(* NULL (the empty sequence) or <<v>>; magnitudes and their errors are in  *)
(* units of 1/Scale mag.                                                   *)
(***************************************************************************)
Schemas == {"run12i", "run12p_v4"}

Null == <<>>
Scale == 1000

\* The number of objects of a schema (q3, q4).
MaxObj == 4

\* The number of objects of a schema (q6, q7).
MaxRows == 2

\* Objects per tract: the tract of an object is encoded in its object_id.
ObjPerTract == 2

\* The UDF tract_from_object_id.
tract_from_object_id(object_id) == object_id \div ObjPerTract

\* SQL's three-valued logic: "T", "F" and "U" (unknown, from a NULL).
Lt3(x, k) == IF x = Null THEN "U" ELSE IF x[1] < k THEN "T" ELSE "F"
Bool3(b) == IF b THEN "T" ELSE "F"
And3(a, b) ==
    IF a = "F" \/ b = "F" THEN "F" ELSE IF a = "T" /\ b = "T" THEN "T" ELSE "U"

\* {schema}.position: the columns of the position table the queries use.
Position(sc) ==
    {[object_id |-> r.object_id, detect_isprimary |-> r.detect_isprimary] : r \in native[sc]}

\* {schema}.dpdd: the view exposes the primary objects only, object_id
\* under the name objectid.
Dpdd(sc) ==
    {[objectid |-> r.object_id, clean |-> r.clean,
      magerr_g |-> r.magerr_g, magerr_r |-> r.magerr_r, magerr_i |-> r.magerr_i,
      mag_g |-> r.mag_g, mag_r |-> r.mag_r, mag_i |-> r.mag_i] :
        r \in {x \in native[sc] : x.detect_isprimary}}

\* SELECT key, COUNT(*) ... GROUP BY key over the rows with the given keys
\* (a function from row to key): one (key, count) row per key.
GroupCount(rows, key) ==
    {<<k, Cardinality({r \in rows : key[r] = k})>> : k \in {key[r] : r \in rows}}

\* Mutant: the WHERE detect_isprimary of q3 left out.
q3_NoWhere(sc) ==
    LET rows == Position(sc)
    IN  GroupCount(rows, [r \in rows |-> tract_from_object_id(r.object_id)])

\* q3: SELECT tract_from_object_id(object_id), COUNT(object_id)
\*     FROM {schema}.position WHERE detect_isprimary
\*     GROUP BY tract_from_object_id(object_id)
q3(sc) ==
    LET rows == {r \in Position(sc) : r.detect_isprimary}
    IN  GroupCount(rows, [r \in rows |-> tract_from_object_id(r.object_id)])

\* q4: SELECT tract_from_object_id(objectid), COUNT(objectid)
\*     FROM {schema}.dpdd GROUP BY tract_from_object_id(objectid)
q4(sc) ==
    LET rows == Dpdd(sc)
    IN  GroupCount(rows, [r \in rows |-> tract_from_object_id(r.objectid)])

min_SNR == 25

\* Mutant: 1/min_SNR evaluated with integer (floor) division, as a
\* Python 2 kernel does.
max_err_floor == (1 \div min_SNR) * Scale

\* max_err = 1/min_SNR (true division), in units of 1/Scale.
max_err == Scale \div min_SNR

\* where = ' WHERE ' + global_cuts + ' AND ' + band_cuts, evaluated on a row
\* of dpdd: clean AND (magerr_g < max_err) AND (magerr_i < max_err)
\*               AND (magerr_r < max_err)
where(r) ==
    And3(Bool3(r.clean),
         And3(Lt3(r.magerr_g, max_err),
              And3(Lt3(r.magerr_i, max_err), Lt3(r.magerr_r, max_err))))

\* The rows of a set as a list, in object order (the order of a sequential
\* scan; SQL does not specify it and nothing below depends on it).
RECURSIVE Scan(_)
Scan(rows) ==
    IF rows = {} THEN <<>>
    ELSE LET r == CHOOSE x \in rows : \A y \in rows : x.objectid <= y.objectid
         IN  <<r>> \o Scan(rows \ {r})

\* q6 / q7: SELECT mag_g,mag_r,mag_i FROM {schema}.dpdd  WHERE ...
\* followed by cursor.fetchall(): a list of tuples.
q6(sc) ==
    LET rows == Scan({r \in Dpdd(sc) : where(r) = "T"})
    IN  [i \in 1..Len(rows) |-> <<rows[i].mag_g, rows[i].mag_r, rows[i].mag_i>>]

\* A row of the native tables.
NativeRow(id, prim, cl, eg, er, ei) ==
    [object_id |-> id, detect_isprimary |-> prim, clean |-> cl,
     magerr_g |-> eg, magerr_r |-> er, magerr_i |-> ei,
     mag_g |-> <<(20 + (id % 2)) * Scale>>, mag_r |-> <<21 * Scale>>, mag_i |-> <<22 * Scale>>]

\* The values of a magnitude error: NULL, just below max_err, max_err.
ErrValues == {Null, <<max_err - 1>>, <<max_err>>}

\* q3 cell (lines 181-185): df = pd.DataFrame(cursor.fetchall(), ...)
RunQ3 ==
    /\ df' = q3(schema)
    /\ qrun' = "q3"
    /\ UNCHANGED <<native, schema, records, nObj, nbVars, timerVars, sparkVars, histVars, gcrVars, pg2Vars>>

\* q4 cell (lines 202-206)
RunQ4 ==
    /\ df' = q4(schema)
    /\ qrun' = "q4"
    /\ UNCHANGED <<native, schema, records, nObj, nbVars, timerVars, sparkVars, histVars, gcrVars, pg2Vars>>

\* q6 cell (lines 245-261): the query on the current value of schema.
RunQ6 ==
    /\ records' = q6(schema)
    /\ nObj' = Len(records')
    /\ qrun' = "q6"
    /\ UNCHANGED <<native, schema, df, nbVars, timerVars, sparkVars, histVars, gcrVars, pg2Vars>>

\* q7 cell (lines 346-363): schema = 'run12p_v4', then the same query.
RunQ7 ==
    /\ schema' = "run12p_v4"
    /\ records' = q6(schema')
    /\ nObj' = Len(records')
    /\ qrun' = "q7"
    /\ UNCHANGED <<native, df, nbVars, timerVars, sparkVars, histVars, gcrVars, pg2Vars>>

(***************************************************************************)
(* The Timer class (time in units of 0.1 s, the resolution of the          *)
(* "{:2.1f}s" that split() prints).                                        *)
(***************************************************************************)
\* The time the clock runs to.
MaxTime == 4

\* time() advances.
Tick ==
    /\ now < MaxTime
    /\ now' = now + 1
    /\ UNCHANGED <<t0, lastCall, printed, sinceCall, nbVars, sqlVars, sparkVars, histVars, gcrVars, pg2Vars>>

\* Timer.__init__: self.t0 = time()
Timer_init ==
    /\ t0' = now
    /\ lastCall' = now
    /\ UNCHANGED <<now, printed, sinceCall, nbVars, sqlVars, sparkVars, histVars, gcrVars, pg2Vars>>

\* Timer.start: self.t0 = time()
Timer_start ==
    /\ t0' = now
    /\ lastCall' = now
    /\ UNCHANGED <<now, printed, sinceCall, nbVars, sqlVars, sparkVars, histVars, gcrVars, pg2Vars>>

\* Timer.split: t1 = time(); print("{:2.1f}s".format(t1 - self.t0))
Timer_split ==
    /\ printed' = <<now - t0>>
    /\ sinceCall' = <<now - lastCall>>
    /\ lastCall' = now
    /\ UNCHANGED <<now, t0, nbVars, sqlVars, sparkVars, histVars, gcrVars, pg2Vars>>

(***************************************************************************)
(* Spark DataFrames: an ordered list of column names and a list of rows    *)
(* (functions from the column names to values).  A transformation that     *)
(* names a column the DataFrame does not have fails (AnalysisException).   *)
(***************************************************************************)
NoFrame == [cols |-> <<>>, rows |-> <<>>, state |-> "none"]
FrameError == [cols |-> <<>>, rows |-> <<>>, state |-> "error"]
Frame(cs, rs) == [cols |-> cs, rows |-> rs, state |-> "ok"]

Range(seq) == {seq[i] : i \in 1..Len(seq)}

\* DataFrame.select(cols)
select(d, cs) ==
    IF d.state # "ok" \/ ~(Range(cs) \subseteq Range(d.cols)) THEN FrameError
    ELSE Frame(cs, [i \in 1..Len(d.rows) |-> [c \in Range(cs) |-> d.rows[i][c]]])

\* DataFrame.filter("halo_id > 0")
KeepPositive(rows, c) ==
    LET Pos(r) == r[c] > 0 IN SelectSeq(rows, Pos)

filter(d, c) ==
    IF d.state # "ok" \/ c \notin Range(d.cols) THEN FrameError
    ELSE Frame(d.cols, KeepPositive(d.rows, c))

\* DataFrame.drop(col): no column of that name, no change.
drop(d, c) ==
    IF d.state # "ok" THEN FrameError
    ELSE LET NotC(x) == x # c
             cs == SelectSeq(d.cols, NotC)
         IN  Frame(cs, [i \in 1..Len(d.rows) |-> [x \in Range(cs) |-> d.rows[i][x]]])

\* The columns of the parquet file: those the notebook selects and one more.
FileCols == <<"halo_id", "position_x", "position_y", "position_z", "redshift", "other">>

\* Mutant: halo_id left out of the selected columns.
cols_NoHaloId == <<"position_x", "position_y", "position_z", "redshift">>

cols == <<"halo_id", "position_x", "position_y", "position_z", "redshift">>

cond == "halo_id"

\* The number of rows of the parquet file.
MaxFileRows == 2

\* A row of the file: a halo_id and values that differ from column to column.
FileRow(hid, v) ==
    [c \in Range(FileCols) |->
        CASE c = "halo_id" -> hid
          [] c = "position_x" -> v
          [] c = "position_y" -> v + 10
          [] c = "position_z" -> v + 20
          [] c = "redshift" -> v + 30
          [] OTHER -> v + 40]

\* df = df_all.select(cols).filter(cond)   (line 179)
SelectFilter ==
    /\ dfSF' = filter(select(df_all, cols), cond)
    /\ UNCHANGED <<df_all, dfFS, nbVars, sqlVars, timerVars, histVars, gcrVars, pg2Vars>>

\* The other order of the transformations that line 164 speaks of:
\* df = df_all.filter(cond).select(cols)
FilterSelect ==
    /\ dfFS' = select(filter(df_all, cond), cols)
    /\ UNCHANGED <<df_all, dfSF, nbVars, sqlVars, timerVars, histVars, gcrVars, pg2Vars>>

\* df = df.drop("halo_id")   (line 182), on either chain
DropHaloId ==
    /\ \/ dfSF.state # "none" /\ dfSF' = drop(dfSF, "halo_id") /\ dfFS' = dfFS
       \/ dfFS.state # "none" /\ dfFS' = drop(dfFS, "halo_id") /\ dfSF' = dfSF
    /\ UNCHANGED <<df_all, nbVars, sqlVars, timerVars, histVars, gcrVars, pg2Vars>>

(***************************************************************************)
(* The two redshift histograms.  Redshifts are integers (in some unit);    *)
(* the arithmetic of the notebook is carried out exactly, on fractions:    *)
(* with R = zmax - zmin, dz = R / Nbins, and a location loc is held as the *)
(* integer 2 * Nbins * loc.                                                *)
(***************************************************************************)
Nbins == 50

\* The number of galaxies, and the largest redshift.
MaxGal == 3
MaxZ == 3

NoHist == <<>>

Min(S) == CHOOSE x \in S : \A y \in S : x <= y
Max(S) == CHOOSE x \in S : \A y \in S : x >= y

\* cast(IntegerType()) of the quotient a / b (b > 0): truncation toward 0.
CastInt(a, b) == IF a >= 0 THEN a \div b ELSE 0 - ((0 - a) \div b)

\* Python's int(a / b) for a >= 0, b > 0, as numpy's histogram uses it.
FloorDiv(a, b) == a \div b

\* ((df["redshift"] - zmin - dz / 2) / dz).cast(IntegerType())
\*   = trunc((2 Nbins (z - zmin) - R) / (2 R));  NULL when dz = 0 (Spark
\* returns NULL for a division by zero).
zbin(z, zmin, zmax) ==
    LET R == zmax - zmin
    IN  IF R = 0 THEN Null ELSE <<CastInt(2 * Nbins * (z - zmin) - R, 2 * R)>>

\* (zmin + dz / 2 + h['bin'] * dz).alias('loc'), times 2 Nbins.
loc(bin, zmin, zmax) ==
    IF bin = Null THEN Null
    ELSE <<2 * Nbins * zmin + (2 * bin[1] + 1) * (zmax - zmin)>>

\* Lines 243-260: zmin, zmax, the bin of every galaxy, groupBy("bin").count(),
\* the loc column, and the bin column dropped.
SparkHistogram(zs) ==
    LET zmin == Min(Range(zs))
        zmax == Max(Range(zs))
        bins == {zbin(zs[i], zmin, zmax) : i \in 1..Len(zs)}
        grouped == {[bin |-> b,
                     count |-> Cardinality({i \in 1..Len(zs) : zbin(zs[i], zmin, zmax) = b})] :
                       b \in bins}
    IN  {[loc |-> loc(g.bin, zmin, zmax), count |-> g.count] : g \in grouped}

\* plt.hist(z_values, range=(min, max), bins=Nbins): Nbins bins of equal
\* width over [min, max], the last one closed; a range of width 0 is
\* widened to (min - 0.5, max + 0.5).
HistBin(z, zmin, zmax) ==
    IF zmax = zmin THEN FloorDiv(Nbins, 2)
    ELSE IF z = zmax THEN Nbins - 1
    ELSE FloorDiv(Nbins * (z - zmin), zmax - zmin)

ClassicalHistogram(zs) ==
    LET zmin == Min(Range(zs))
        zmax == Max(Range(zs))
    IN  [k \in 0..(Nbins - 1) |->
            Cardinality({i \in 1..Len(zs) : HistBin(zs[i], zmin, zmax) = k})]

\* The redshift histogram cell up to hp = h.toPandas() (lines 243-264).
RunSparkHist ==
    /\ h' = <<SparkHistogram(redshift)>>
    /\ UNCHANGED <<redshift, hist, nbVars, sqlVars, timerVars, sparkVars, gcrVars, pg2Vars>>

\* The emulation cell: collect and plt.hist (lines 292-293).
RunClassicalHist ==
    /\ hist' = <<ClassicalHistogram(redshift)>>
    /\ UNCHANGED <<redshift, h, nbVars, sqlVars, timerVars, sparkVars, gcrVars, pg2Vars>>

(***************************************************************************)
(* The GCR catalog with photo-z (dc2_object_run1.2i_with_photoz).  The     *)
(* catalog is read chunk by chunk (one chunk per tract and patch); a       *)
(* column value is a float, <<v>> in units of 1/Scale, or NaN; a numpy     *)
(* array is its shape and its values.                                      *)
(***************************************************************************)
NaN == <<>>

\* The number of points of the redshift grid, cat.photoz_pdf_bin_centers.
MaxGrid == 3

\* The number of objects of a patch.
MaxPatchRows == 2

photoz_pdf_bin_centers == [k \in 1..MaxGrid |-> k * (Scale \div MaxGrid)]

\* The PDF of object kind id on the grid.
Pdf(id) == [k \in 1..MaxGrid |-> 10 * id + k]

Object(id, mode, mag, ext, cl, snr_g, cmodel) ==
    [id |-> id, photoz_mode |-> mode, mag_i |-> mag, extendedness |-> ext,
     clean |-> cl, snr_i_cModel |-> <<21 * Scale>>, snr_r_cModel |-> <<21 * Scale>>,
     snr_g_cModel |-> snr_g, mag_i_cModel |-> cmodel,
     mag_g_cModel |-> <<23 * Scale>>, mag_r_cModel |-> <<22 * Scale>>,
     photoz_pdf |-> Pdf(id)]

\* The kinds of objects of the catalogs considered: galaxies at z = 0.1,
\* at z = 0.2 (the limit of the filter), at z = 0.7; an object without
\* measurements; a star at the limits mag_i = 26 and snr_g = 20.
ObjectKinds ==
    { Object(1, <<100>>, <<25 * Scale>>, <<Scale>>, TRUE, <<21 * Scale>>, <<21 * Scale>>),
      Object(2, <<200>>, <<25 * Scale>>, <<Scale>>, TRUE, <<21 * Scale>>, <<21 * Scale>>),
      Object(3, <<700>>, <<21 * Scale>>, <<Scale>>, TRUE, <<21 * Scale>>, <<21 * Scale>>),
      Object(4, NaN, NaN, <<Scale>>, TRUE, NaN, NaN),
      Object(5, <<100>>, <<26 * Scale>>, <<0>>, FALSE, <<20 * Scale>>, <<21 * Scale>>) }

\* A GCRQuery on one column: 'col < val', 'col > val', (np.isfinite, col)
\* or a boolean column.  A comparison with NaN is False.
Query(col, op, val) == [col |-> col, op |-> op, val |-> val]

Holds(f, row) ==
    LET x == row[f.col]
    IN  CASE f.op = "<" -> x # NaN /\ x[1] < f.val
          [] f.op = ">" -> x # NaN /\ x[1] > f.val
          [] f.op = "isfinite" -> x # NaN
          [] f.op = "bool" -> x

\* Mutant: the filter on photoz_mode left out of the call.
filters_NoPhotoz == {Query("mag_i", "<", 26 * Scale)}

\* filters=['photoz_mode < 0.2', 'mag_i < 26']   (line 445)
filters == {Query("photoz_mode", "<", 200), Query("mag_i", "<", 26 * Scale)}

\* native_filters=['tract==4850']
native_filters == {4850}

AllTracts == {4849, 4850}

\* cuts (lines 541-551)
cuts ==
    { Query("extendedness", ">", 0), Query("mag_i", "isfinite", 0), Query("clean", "bool", 0),
      Query("snr_i_cModel", ">", 20 * Scale), Query("snr_r_cModel", ">", 20 * Scale),
      Query("snr_g_cModel", ">", 20 * Scale),
      Query("mag_i_cModel", "<", 22 * Scale), Query("mag_i_cModel", ">", 20 * Scale) }

\* A numpy array: 1-D of shape <<n>> or 2-D of shape <<n, m>>.
Array(shape, v) == [shape |-> shape, v |-> v]

\* array[mask]: the rows where mask is True; the other axes are kept.
Masked(a, mask) ==
    LET Keep(i) == mask[i]
        idx == SelectSeq([i \in 1..Len(a.v) |-> i], Keep)
    IN  Array([a.shape EXCEPT ![1] = Len(idx)], [j \in 1..Len(idx) |-> a.v[idx[j]]])

\* Column q of a chunk: 2-D (rows x grid) for photoz_pdf, 1-D otherwise.
ChunkColumn(chunk, q) ==
    Array(IF q = "photoz_pdf" THEN <<Len(chunk.rows), MaxGrid>> ELSE <<Len(chunk.rows)>>,
          [i \in 1..Len(chunk.rows) |-> chunk.rows[i][q]])

\* What the iterator yields for a chunk: the requested columns, masked by
\* the conjunction of the filters.
ChunkData(chunk, quantities, fs) ==
    LET mask == [i \in 1..Len(chunk.rows) |-> \A f \in fs : Holds(f, chunk.rows[i])]
    IN  [q \in quantities |-> Masked(ChunkColumn(chunk, q), mask)]

\* The chunks the native filters keep, in catalog order.
Chunks(cat, tracts) ==
    LET Keep(c) == c.tract \in tracts IN SelectSeq(cat, Keep)

\* np.concatenate of the arrays of one column (no array: an empty 1-D array).
RECURSIVE Concatenate(_)
Concatenate(arrays) ==
    IF Len(arrays) = 0 THEN Array(<<0>>, <<>>)
    ELSE IF Len(arrays) = 1 THEN arrays[1]
    ELSE LET rest == Concatenate(Tail(arrays))
         IN  Array([arrays[1].shape EXCEPT ![1] = @ + rest.shape[1]], arrays[1].v \o rest.v)

\* cat.get_quantities(quantities, filters=..., native_filters=...)
get_quantities(cat, quantities, fs, tracts) ==
    LET cs == Chunks(cat, tracts)
    IN  [q \in quantities |->
            Concatenate([i \in 1..Len(cs) |-> ChunkData(cs[i], quantities, fs)[q]])]

\* next(cat.get_quantities(quantities, return_iterator=True)): the first chunk.
first_chunk(cat, quantities) == ChunkData(cat[1], quantities, {})

RECURSIVE SumSeq(_)
SumSeq(xs) == IF xs = <<>> THEN 0 ELSE xs[1] + SumSeq(Tail(xs))

\* Mutant: the sum taken over axis 1.
np_sum_axis1(a) ==
    Array(<<a.shape[1]>>, [i \in 1..a.shape[1] |-> SumSeq(a.v[i])])

\* np.sum(a, axis=0) of a 2-D array: one value per column.
np_sum(a) ==
    Array(<<a.shape[2]>>,
          [k \in 1..a.shape[2] |-> SumSeq([i \in 1..a.shape[1] |-> a.v[i][k]])])

\* Lines 444-449: the filtered read and the check of the filter.
RunFilterCheck ==
    /\ data' = get_quantities(catalog, {"photoz_mode"}, filters, native_filters)
    /\ check' = <<\A i \in 1..Len(data'.photoz_mode.v) :
                     Holds(Query("photoz_mode", "<", 200), [photoz_mode |-> data'.photoz_mode.v[i]])>>
    /\ gcrun' = "filter"
    /\ UNCHANGED <<catalog, sumpdf, sumpdf_bin, nbVars, sqlVars, timerVars, sparkVars, histVars, pg2Vars>>

\* Line 467: one patch of the full PDFs and the peak values.
RunFirstPatch ==
    /\ data' = first_chunk(catalog, {"photoz_pdf", "photoz_mode"})
    /\ gcrun' = "patch"
    /\ UNCHANGED <<catalog, check, sumpdf, sumpdf_bin, nbVars, sqlVars, timerVars, sparkVars, histVars, pg2Vars>>

\* Line 567: the galaxies of tract 4850 that pass the cuts.
RunCuts ==
    /\ data' = get_quantities(catalog,
                   {"photoz_mode", "mag_g_cModel", "mag_r_cModel", "mag_i_cModel", "photoz_pdf"},
                   cuts, native_filters)
    /\ gcrun' = "cuts"
    /\ UNCHANGED <<catalog, check, sumpdf, sumpdf_bin, nbVars, sqlVars, timerVars, sparkVars, histVars, pg2Vars>>

\* Line 576: sumpdf = np.sum(data['photoz_pdf'], axis=0)
RunSumPdf ==
    /\ gcrun \in {"patch", "cuts"}
    /\ sumpdf' = <<np_sum(data.photoz_pdf)>>
    /\ UNCHANGED <<catalog, data, check, sumpdf_bin, gcrun, nbVars, sqlVars, timerVars, sparkVars, histVars, pg2Vars>>

\* Lines 630-631: the tomographic slice 0.6 < photoz_mode < 0.8.
bin_cut(d) ==
    [i \in 1..Len(d.photoz_mode.v) |->
        /\ Holds(Query("photoz_mode", ">", 600), [photoz_mode |-> d.photoz_mode.v[i]])
        /\ Holds(Query("photoz_mode", "<", 800), [photoz_mode |-> d.photoz_mode.v[i]])]

RunBinCut ==
    /\ gcrun \in {"patch", "cuts"}
    /\ sumpdf_bin' = <<np_sum(Masked(data.photoz_pdf, bin_cut(data)))>>
    /\ UNCHANGED <<catalog, data, check, sumpdf, gcrun, nbVars, sqlVars, timerVars, sparkVars, histVars, pg2Vars>>

(***************************************************************************)
(* find_table_query of postgres_object_2.  A column name is the sequence   *)
(* of its parts between underscores; information_schema.columns has one    *)
(* row per column of a table, the column name in lower case.               *)
(***************************************************************************)
\* str.lower() of a part of a column name.
LowerPart(p) ==
    CASE p = "shapeHSM" -> "shapehsm"
      [] p = "HsmShapeRegauss" -> "hsmshaperegauss"
      [] OTHER -> p

lower(name) == [i \in 1..Len(name) |-> LowerPart(name[i])]

\* The column the text above the cell names (line 118).
ext_shapeHSM_HsmShapeRegauss_resolution == <<"ext", "shapeHSM", "HsmShapeRegauss", "resolution">>

\* The column the text below the cell names (line 142).
ext_shapeHSM_HsmShapeRegauss_flag == <<"ext", "shapeHSM", "HsmShapeRegauss", "flag">>

\* column = 'ext_shapehsm_hsmshaperegauss_flag'   (line 127)
column == <<"ext", "shapehsm", "hsmshaperegauss", "flag">>

\* "select table_name from information_schema.columns where
\*  table_schema='{}' and column_name='{}'".format(schema, column):
\* the text of the query, the placeholders replaced in order.
Format(template, args) ==
    LET Holes(k) == Cardinality({j \in 1..k : template[j] = "{}"})
    IN  [i \in 1..Len(template) |->
            IF template[i] = "{}" THEN args[Holes(i)] ELSE template[i]]

find_table_template ==
    <<"select table_name from information_schema.columns where table_schema='", "{}",
      "' and column_name='", "{}", "'">>

\* The tables information_schema.columns lists for the two literals of
\* the query (string comparison: the case matters).
ExecuteFindTable(q, rows) ==
    {r.table_name : r \in {x \in rows : x.table_schema = q[2] /\ x.column_name = q[4]}}

Tables == {"dpdd_ref", "position"}

\* Lines 127-134: the query is formatted, executed and its records printed.
RunFindTable ==
    /\ find_table_query' = Format(find_table_template, <<schema, column>>)
    /\ tables' = <<ExecuteFindTable(find_table_query', columns)>>
    /\ UNCHANGED <<columns, nbVars, sqlVars, timerVars, sparkVars, histVars, gcrVars>>

(***************************************************************************)
(* The cone search of postgres_object_2.  Angles on the sky are in         *)
(* arcseconds, the values ra and decl of the notebook in tenths of a       *)
(* degree; the patch of sky is small and taken as flat.                    *)
(***************************************************************************)
ra == 545
decl == 0 - 314
radius == 240

\* Arcseconds in a tenth of a degree.
ArcsecPerTenth == 360

Abs(x) == IF x < 0 THEN 0 - x ELSE x

\* coneSearch(coord, ra, dec, radius): true if coord is within the cone
\* centred at (ra, dec) of the given radius in arcseconds.
coneSearch(coord, ra0, dec0, r) ==
    LET dx == coord[1] - ra0 * ArcsecPerTenth
        dy == coord[2] - dec0 * ArcsecPerTenth
    IN  /\ Abs(dx) <= r
        /\ Abs(dy) <= r
        /\ dx * dx + dy * dy <= r * r

\* {schema}.dpdd with the columns of the area searches: the primary
\* objects, with coord and (ra, dec) for the same position.
DpddCoord(sc) ==
    {[objectid |-> r.object_id, clean |-> r.clean, magerr_i |-> r.magerr_i,
      extendedness |-> r.extendedness, mag_i |-> r.mag_i,
      ra |-> r.coord[1], dec |-> r.coord[2], coord |-> r.coord] :
        r \in {x \in native[sc] : x.detect_isprimary}}

\* Mutant: ra and decl passed to coneSearch in the other order.
where_cone_swapped(r) ==
    And3(Lt3(r.magerr_i, max_err),
         And3(Bool3(r.clean),
              And3(Lt3(r.extendedness, Scale),
                   Bool3(coneSearch(r.coord, decl, ra, radius)))))

\* where = ' where (magerr_i < max_err) and clean and (extendedness < 1.0)
\*           and coneSearch(coord, ra, decl, radius)'          (line 233)
where_cone(r) ==
    And3(Lt3(r.magerr_i, max_err),
         And3(Bool3(r.clean),
              And3(Lt3(r.extendedness, Scale),
                   Bool3(coneSearch(r.coord, ra, decl, radius)))))

\* qcone: SELECT ra, dec, mag_i from {schema}.dpdd where ..., followed
\* by cursor.fetchall().
qcone(sc) ==
    LET rows == Scan({r \in DpddCoord(sc) : where_cone(r) = "T"})
    IN  [i \in 1..Len(rows) |-> <<rows[i].ra, rows[i].dec, rows[i].mag_i>>]

\* A row of the native tables with its position, as an offset in
\* arcseconds from (54.5, -31.4) degrees.
SkyRow(id, prim, cl, err, ext, dx, dy) ==
    [object_id |-> id, detect_isprimary |-> prim, clean |-> cl, magerr_i |-> err,
     extendedness |-> ext, mag_i |-> <<21 * Scale>>,
     coord |-> <<ra * ArcsecPerTenth + dx, decl * ArcsecPerTenth + dy>>]

\* The kinds of objects considered: stars that pass the cuts, inside the
\* cone (at its centre, at 224"), outside it (at 283", at 241"), and
\* objects inside the cone that fail one cut or are not primary.
SkyKinds(id) ==
    { SkyRow(id, TRUE, TRUE, <<max_err - 1>>, <<0>>, 0, 0),
      SkyRow(id, TRUE, TRUE, <<max_err - 1>>, <<0>>, 200, 100),
      SkyRow(id, TRUE, TRUE, <<max_err - 1>>, <<0>>, 200, 200),
      SkyRow(id, TRUE, TRUE, <<max_err - 1>>, <<0>>, 0, 0 - 241),
      SkyRow(id, TRUE, TRUE, <<max_err>>, <<0>>, 0, 0),
      SkyRow(id, TRUE, TRUE, Null, <<0>>, 0, 0),
      SkyRow(id, TRUE, FALSE, <<max_err - 1>>, <<0>>, 0, 0),
      SkyRow(id, TRUE, TRUE, <<max_err - 1>>, <<Scale>>, 0, 0),
      SkyRow(id, TRUE, TRUE, <<max_err - 1>>, Null, 0, 0),
      SkyRow(id, FALSE, TRUE, <<max_err - 1>>, <<0>>, 0, 0) }

\* qcone cell (lines 224-240): schema = 'run12p_v4', then the query.
RunQcone ==
    /\ schema' = "run12p_v4"
    /\ records' = qcone(schema')
    /\ nObj' = Len(records')
    /\ qrun' = "qcone"
    /\ UNCHANGED <<native, df, nbVars, timerVars, sparkVars, histVars, gcrVars, pg2Vars>>

(***************************************************************************)
(* The parts of the state a specification does not exercise stay as they   *)
(* are before the corresponding cells run.                                 *)
(***************************************************************************)
SqlIdle ==
    /\ native = [sc \in Schemas |-> {}]
    /\ schema = None
    /\ df = {}
    /\ records = <<>>
    /\ nObj = 0
    /\ qrun = None

TimerIdle ==
    /\ now = 0
    /\ t0 = 0
    /\ lastCall = 0
    /\ printed = <<>>
    /\ sinceCall = <<>>

SparkIdle ==
    /\ df_all = NoFrame
    /\ dfSF = NoFrame
    /\ dfFS = NoFrame

HistIdle ==
    /\ redshift = <<>>
    /\ h = NoHist
    /\ hist = NoHist

GcrIdle ==
    /\ catalog = <<>>
    /\ data = <<>>
    /\ check = <<>>
    /\ sumpdf = <<>>
    /\ sumpdf_bin = <<>>
    /\ gcrun = None

Pg2Idle ==
    /\ columns = {}
    /\ find_table_query = <<>>
    /\ tables = <<>>

(***************************************************************************)
(* SpecNotebooks: the notebooks of the repository run, each top to bottom, *)
(* at most MaxKernels of them open at a time, in any interleaving.         *)
(***************************************************************************)
InitNotebooks == NbInit /\ SqlIdle /\ TimerIdle /\ SparkIdle /\ HistIdle /\ GcrIdle /\ Pg2Idle

NextNotebooks ==
    \/ \E nb \in Notebooks : RunStmt(nb)
    \/ \E nb \in Notebooks : RestartKernel(nb)

SpecNotebooks == InitNotebooks /\ [][NextNotebooks]_vars

(***************************************************************************)
(* Claims about the run of the notebooks (SpecNotebooks).                  *)
(***************************************************************************)
\* A step in which notebook nb executes its next statement (to completion
\* or to an exception).
StmtRuns(nb) ==
    /\ status[nb] \in {"idle", "running"}
    /\ \/ pc'[nb] = pc[nb] + 1
       \/ status'[nb] = "error"

\* The services a notebook connects to before it queries or reads them.
Services == {"postgres", "gcr", "parquet"}

\* C1: no cell writes to a persistent store: whatever cells of whatever
\* notebooks have run, in whatever interleaving, the database, the catalog
\* files, the parquet file and the asset files are as they were at the start
\* (so what a notebook reads does not depend on the notebooks run before).
C1_StoresUnchanged == store = StoreInit

\* C1 witness: two notebooks have run to their end in one session, the
\* second PostgreSQL notebook (SQL statements) and the redMaPPer notebook.
C1_Witness == status["pg2"] = "done" /\ status["redmapper"] = "done"

\* connect -> query/read: a query or read of a service goes through a handle
\* created before.
HandleFirst(s, e) ==
    (s.op \in {"query", "read"} /\ s.tgt \in Services) => (s.use \cap e.handle # {})

\* materialize -> use: the statement uses no result that is still remote.
LocalOnly(s, e) == s.use \cap e.remote = {}

CountIdx == CHOOSE i \in 1..Len(MovieSteps) : MovieSteps[i].line = 187

\* C7: evaluation is lazy: as long as N = df.cache().count() has not
\* executed, the engine has read no row of the parquet file.
C7_LazyUntilCount == (pc["movie"] <= CountIdx) => ~rowsLoaded

\* C7 witness: count() has just executed, and the rows have been loaded.
C7_Witness == pc["movie"] = CountIdx + 1 /\ rowsLoaded

\* C8: run top to bottom in a fresh kernel, no cell of cosmoDC2_TheMovie
\* raises an exception.
C8_MovieRuns == status["movie"] # "error"

(***************************************************************************)
(* SpecTract: q3 and q4 on a schema whose objects are primary or not.      *)
(***************************************************************************)
InitTract ==
    /\ schema \in Schemas
    /\ \E present \in SUBSET (1..MaxObj) : \E prim \in SUBSET present :
          native = [sc \in Schemas |->
                      IF sc = schema
                      THEN {NativeRow(i, i \in prim, TRUE, <<max_err - 1>>, <<max_err - 1>>,
                                      <<max_err - 1>>) : i \in present}
                      ELSE {}]
    /\ df = {} /\ records = <<>> /\ nObj = 0 /\ qrun = None
    /\ NbInit /\ TimerIdle /\ SparkIdle /\ HistIdle /\ GcrIdle /\ Pg2Idle

NextTract == RunQ3 \/ RunQ4

SpecTract == InitTract /\ [][NextTract]_vars

\* C3: q4 (no is-primary condition, on the dpdd view) returns the same set
\* of (tract, count) rows as q3 (WHERE detect_isprimary, on position); each
\* tract is in exactly one row and the counts sum to the number of primary
\* objects.
RECURSIVE SumCounts(_)
SumCounts(rows) ==
    IF rows = {} THEN 0
    ELSE LET x == CHOOSE y \in rows : TRUE IN x[2] + SumCounts(rows \ {x})

C3_SameRows ==
    /\ qrun = "q3" => df = q4(schema)
    /\ qrun = "q4" => df = q3(schema)
    /\ qrun \in {"q3", "q4"} =>
          /\ \A x, y \in df : x[1] = y[1] => x = y
          /\ SumCounts(df) = Cardinality({r \in native[schema] : r.detect_isprimary})

\* C3 witness: q4 has run on a schema with primary objects in two tracts and
\* an object that is not primary.
C3_Witness ==
    /\ qrun = "q4"
    /\ Cardinality(df) >= 2
    /\ \E r \in native[schema] : ~r.detect_isprimary

(***************************************************************************)
(* SpecCuts: q6 and q7 on a schema of primary objects, clean or not, with  *)
(* magnitude errors around max_err.                                        *)
(***************************************************************************)
InitCuts ==
    /\ schema = "run12i"
    /\ \E sc0 \in Schemas : \E n \in 0..MaxRows :
       \E cl \in [1..n -> BOOLEAN] : \E err \in [1..n -> [{"g", "r", "i"} -> ErrValues]] :
          native = [sc \in Schemas |->
                      IF sc = sc0
                      THEN {NativeRow(i, TRUE, cl[i], err[i]["g"], err[i]["r"], err[i]["i"]) :
                              i \in 1..n}
                      ELSE {}]
    /\ df = {} /\ records = <<>> /\ nObj = 0 /\ qrun = None
    /\ NbInit /\ TimerIdle /\ SparkIdle /\ HistIdle /\ GcrIdle /\ Pg2Idle

NextCuts == RunQ6 \/ RunQ7

SpecCuts == InitCuts /\ [][NextCuts]_vars

\* The rows of {schema}.dpdd that are clean and whose three magnitude errors
\* are strictly below 1/min_SNR = 0.04.
GoodRows(sc) ==
    {r \in Dpdd(sc) :
        /\ r.clean
        /\ \A e \in {r.magerr_g, r.magerr_r, r.magerr_i} : e # Null /\ e[1] * min_SNR < Scale}

\* C4: the records of q6 (of q7, for run12p_v4) are exactly the clean rows
\* of {schema}.dpdd with magerr_g, magerr_r and magerr_i all strictly below
\* max_err, and nObj is their number.
C4_Records ==
    qrun \in {"q6", "q7"} =>
        /\ qrun = "q7" => schema = "run12p_v4"
        /\ nObj = Cardinality(GoodRows(schema))
        /\ Len(records) = nObj
        /\ \A t \in {<<r.mag_g, r.mag_r, r.mag_i>> : r \in Dpdd(schema)} \cup
                     {records[i] : i \in 1..Len(records)} :
              Cardinality({i \in 1..Len(records) : records[i] = t}) =
              Cardinality({r \in GoodRows(schema) : <<r.mag_g, r.mag_r, r.mag_i>> = t})

\* C4 witness: q7 has returned one object of run12p_v4 and rejected another.
C4_Witness ==
    /\ qrun = "q7"
    /\ nObj = 1
    /\ Cardinality(Dpdd(schema)) = 2

(***************************************************************************)
(* SpecTimer: any sequence of Timer(), start() and split() calls as time   *)
(* passes.                                                                 *)
(***************************************************************************)
InitTimer ==
    /\ now = 0 /\ t0 = 0 /\ lastCall = 0 /\ printed = <<>> /\ sinceCall = <<>>
    /\ NbInit /\ SqlIdle /\ SparkIdle /\ HistIdle /\ GcrIdle /\ Pg2Idle

NextTimer == Tick \/ Timer_init \/ Timer_start \/ Timer_split

SpecTimer == InitTimer /\ [][NextTimer]_vars

\* C5: split() prints the time elapsed since the last call made on the
\* Timer (__init__, start() or split()).
C5_SinceLastCall == printed # <<>> => printed = sinceCall

(***************************************************************************)
(* SpecSelect: the two orders of select and filter, then drop, on a file   *)
(* of up to MaxFileRows rows.                                              *)
(***************************************************************************)
InitSelect ==
    /\ \E n \in 0..MaxFileRows :
       \E hid \in [1..n -> {-1, 0, 1}] : \E v \in [1..n -> {0, 1}] :
          df_all = Frame(FileCols, [i \in 1..n |-> FileRow(hid[i], v[i])])
    /\ dfSF = NoFrame /\ dfFS = NoFrame
    /\ NbInit /\ SqlIdle /\ TimerIdle /\ HistIdle /\ GcrIdle /\ Pg2Idle

NextSelect == SelectFilter \/ FilterSelect \/ DropHaloId

SpecSelect == InitSelect /\ [][NextSelect]_vars

\* C6: select(cols).filter(cond) and filter(cond).select(cols) yield the
\* same columns and rows, and so do the two after halo_id is dropped.
C6_OrderIrrelevant ==
    (/\ dfSF.state # "none" /\ dfFS.state # "none"
     /\ ("halo_id" \in Range(dfSF.cols)) = ("halo_id" \in Range(dfFS.cols)))
    => (dfSF = dfFS /\ dfSF.state = "ok")

\* C6 witness: both chains have dropped halo_id, and the filter has
\* removed a row and kept another.
C6_Witness ==
    /\ dfSF.state = "ok" /\ dfFS.state = "ok"
    /\ dfSF.cols = <<"position_x", "position_y", "position_z", "redshift">>
    /\ dfFS.cols = dfSF.cols
    /\ Len(dfSF.rows) = 1 /\ Len(df_all.rows) = 2

(***************************************************************************)
(* SpecHist: the two histograms of up to MaxGal redshifts in 0..MaxZ.      *)
(***************************************************************************)
InitHist ==
    /\ \E n \in 1..MaxGal : redshift \in [1..n -> 0..MaxZ]
    /\ h = NoHist /\ hist = NoHist
    /\ NbInit /\ SqlIdle /\ TimerIdle /\ SparkIdle /\ GcrIdle /\ Pg2Idle

NextHist == RunSparkHist \/ RunClassicalHist

SpecHist == InitHist /\ [][NextHist]_vars

zmin == Min(Range(redshift))
zmax == Max(Range(redshift))

\* C9: loc is the centre of its bin: every galaxy counted in the row of h
\* whose location is loc has its redshift in [loc - dz/2, loc + dz/2]
\* (times 2 Nbins: loc2N - R <= 2 Nbins z <= loc2N + R, R = zmax - zmin).
C9_LocIsCentre ==
    h # NoHist =>
        \A row \in h[1] : row.loc # Null =>
            \A i \in 1..Len(redshift) :
                loc(zbin(redshift[i], zmin, zmax), zmin, zmax) = row.loc =>
                    /\ row.loc[1] - (zmax - zmin) <= 2 * Nbins * redshift[i]
                    /\ 2 * Nbins * redshift[i] <= row.loc[1] + (zmax - zmin)

\* The count the Spark histogram gives at the centre of bin k of the
\* classical histogram, zmin + dz / 2 + k * dz (no row: no galaxy).
SparkCount(k) ==
    LET at == {row \in h[1] : row.loc = loc(<<k>>, zmin, zmax)}
    IN  IF at = {} THEN 0 ELSE (CHOOSE row \in at : TRUE).count

\* C10: with zmax > zmin, the per-bin counts of the Spark histogram equal
\* those of the classical histogram of the same redshifts over (min, max)
\* with Nbins bins.
C10_SameCounts ==
    (h # NoHist /\ hist # NoHist /\ zmax > zmin) =>
        \A k \in 0..(Nbins - 1) : SparkCount(k) = hist[1][k]


(***************************************************************************)
(* SpecPhotoz: the cells of the photo-z notebook on a catalog of two       *)
(* patches: a first one of any tract with at most one object, and one of   *)
(* tract 4850 with up to MaxPatchRows objects.                             *)
(***************************************************************************)
InitPhotoz ==
    /\ \E t \in AllTracts : \E n1 \in 0..1 : \E n2 \in 0..MaxPatchRows :
       \E r1 \in [1..n1 -> ObjectKinds] : \E r2 \in [1..n2 -> ObjectKinds] :
          catalog = <<[tract |-> t, rows |-> r1], [tract |-> 4850, rows |-> r2]>>
    /\ data = <<>> /\ check = <<>> /\ sumpdf = <<>> /\ sumpdf_bin = <<>> /\ gcrun = None
    /\ NbInit /\ SqlIdle /\ TimerIdle /\ SparkIdle /\ HistIdle /\ Pg2Idle

NextPhotoz == RunFilterCheck \/ RunFirstPatch \/ RunCuts \/ RunSumPdf \/ RunBinCut

SpecPhotoz == InitPhotoz /\ [][NextPhotoz]_vars

\* The objects of the catalog in the given tracts, in catalog order.
RECURSIVE Flatten(_)
Flatten(cs) == IF cs = <<>> THEN <<>> ELSE cs[1].rows \o Flatten(Tail(cs))

\* The objects of tract 4850 with photoz_mode < 0.2 and mag_i < 26.
Selected ==
    LET Good(o) == /\ o.photoz_mode # NaN /\ o.photoz_mode[1] * 5 < Scale
                   /\ o.mag_i # NaN /\ o.mag_i[1] < 26 * Scale
    IN  SelectSeq(Flatten(Chunks(catalog, {4850})), Good)

\* C11: the rows the filtered read returns are those of the objects of
\* tract 4850 with photoz_mode < 0.2 and mag_i < 26, every returned
\* photoz_mode is below 0.2 and the check of the notebook is True.
C11_FiltersWork ==
    gcrun = "filter" =>
        /\ check = <<TRUE>>
        /\ data.photoz_mode.v = [i \in 1..Len(Selected) |-> Selected[i].photoz_mode]
        /\ \A i \in 1..Len(data.photoz_mode.v) :
              data.photoz_mode.v[i] # NaN /\ data.photoz_mode.v[i][1] < 200

\* C11 witness: the read returned an object and rejected objects of tract
\* 4850 at photoz_mode = 0.2 and without photoz_mode.
C11_Witness ==
    /\ gcrun = "filter"
    /\ Len(data.photoz_mode.v) >= 1
    /\ \E i \in 1..Len(catalog[2].rows) : catalog[2].rows[i].photoz_mode = <<200>>
    /\ catalog[1].tract = 4850
    /\ \E i \in 1..Len(catalog[1].rows) : catalog[1].rows[i].photoz_mode = NaN


\* The objects behind the rows of data: those of the first patch, or those
\* of tract 4850 that pass the cuts, in catalog order.
Behind ==
    LET Pass(o) == \A f \in cuts : Holds(f, o)
    IN  IF gcrun = "patch" THEN catalog[1].rows
        ELSE SelectSeq(Flatten(Chunks(catalog, {4850})), Pass)

InitFindTable ==
    /\ schema = "run12p_v4"
    /\ columns \in SUBSET [table_schema : Schemas, table_name : Tables,
                            column_name : {lower(ext_shapeHSM_HsmShapeRegauss_resolution),
                                           lower(ext_shapeHSM_HsmShapeRegauss_flag)}]
    /\ find_table_query = <<>> /\ tables = <<>>
    /\ native = [sc \in Schemas |-> {}] /\ df = {} /\ records = <<>> /\ nObj = 0 /\ qrun = None
    /\ NbInit /\ TimerIdle /\ SparkIdle /\ HistIdle /\ GcrIdle

NextFindTable == RunFindTable

SpecFindTable == InitFindTable /\ [][NextFindTable]_vars

\* C13: the column name substituted into the information_schema query is
\* ext_shapeHSM_HsmShapeRegauss_resolution in all lower case, and the
\* tables found are the tables of the schema that have that column.
C13_ResolutionColumn ==
    find_table_query # <<>> =>
        /\ find_table_query[4] = lower(ext_shapeHSM_HsmShapeRegauss_resolution)
        /\ tables[1] = {r.table_name : r \in
                           {x \in columns :
                               /\ x.table_schema = schema
                               /\ x.column_name = lower(ext_shapeHSM_HsmShapeRegauss_resolution)}}


(***************************************************************************)
(* SpecCone: the cone search on a schema of up to MaxRows objects.         *)
(***************************************************************************)
InitCone ==
    /\ schema \in Schemas
    /\ \E sc0 \in Schemas : \E n \in 0..MaxRows :
       \E rows \in [1..n -> UNION {SkyKinds(i) : i \in 1..n}] :
          /\ \A i \in 1..n : rows[i].object_id = i
          /\ native = [sc \in Schemas |-> IF sc = sc0 THEN Range(rows) ELSE {}]
    /\ df = {} /\ records = <<>> /\ nObj = 0 /\ qrun = None
    /\ NbInit /\ TimerIdle /\ SparkIdle /\ HistIdle /\ GcrIdle /\ Pg2Idle

NextCone == RunQcone

SpecCone == InitCone /\ [][NextCone]_vars

\* The rows of {schema}.dpdd with magerr_i < 1/25, clean, extendedness < 1
\* and coord within 240" of (54.5, -31.4) degrees = (196200", -113040").
InCone(sc) ==
    {r \in DpddCoord(sc) :
        /\ r.magerr_i # Null /\ r.magerr_i[1] * 25 < Scale
        /\ r.clean
        /\ r.extendedness # Null /\ r.extendedness[1] < Scale
        /\ Abs(r.coord[1] - 196200) <= 240 /\ Abs(r.coord[2] + 113040) <= 240
        /\ (r.coord[1] - 196200) * (r.coord[1] - 196200)
             + (r.coord[2] + 113040) * (r.coord[2] + 113040) <= 240 * 240}

\* C14: the records of qcone are exactly the (ra, dec, mag_i) of the rows
\* of run12p_v4.dpdd that are clean, have magerr_i < 1/25 and
\* extendedness < 1.0 and lie within 240 arcseconds of (54.5, -31.4), and
\* nObj is their number.
C14_ConeRecords ==
    qrun = "qcone" =>
        /\ schema = "run12p_v4"
        /\ nObj = Cardinality(InCone("run12p_v4"))
        /\ Len(records) = nObj
        /\ \A t \in {<<r.ra, r.dec, r.mag_i>> : r \in DpddCoord(schema)} \cup
                     {records[i] : i \in 1..Len(records)} :
              Cardinality({i \in 1..Len(records) : records[i] = t}) =
              Cardinality({r \in InCone(schema) : <<r.ra, r.dec, r.mag_i>> = t})

\* C14 witness: the search returned one star of run12p_v4 and rejected a
\* star that passes the cuts and lies outside the cone.
C14_Witness ==
    /\ qrun = "qcone"
    /\ nObj = 1
    /\ \E r \in DpddCoord(schema) :
          /\ r.clean /\ r.magerr_i = <<max_err - 1>> /\ r.extendedness = <<0>>
          /\ r.coord # <<ra * ArcsecPerTenth, decl * ArcsecPerTenth>>
          /\ <<r.ra, r.dec, r.mag_i>> \notin Range(records)

=============================================================================
